---- MODULE Spec2Model ----
(***************************************************************************)
(* Storage-quota and file-lifecycle engine of the encrypted-files backend. *)
(*                                                                         *)
(* The model follows services/file_service.py, services/user_service.py,   *)
(* config/storage.py, utils/validators.py and routes/files.py.  Every call *)
(* to the metadata database or to the object store is one atomic step of a *)
(* request; requests of different callers interleave between those calls.  *)
(* Every such call may also fail (raise), which is a second disjunct of    *)
(* the step.  A failed call is taken to have had no effect on the backend. *)
(***************************************************************************)
EXTENDS Integers, Sequences, FiniteSets, TLC

\* ------------------------------------------------------------------ bounds
\* number of file ids uuid4() hands out in one run
MaxFiles == 2
\* storage_limit column of every user of the model, in bytes
StorageLimit == 1000
\* number of rows in the catalog at the start of a run of listings
MaxRows == 4

\* ------------------------------------------------------- program constants
max_file_size_mb == 50
max_file_size_bytes == max_file_size_mb * 1024 * 1024
SignedUrlTtl == 300

\* ------------------------------------------------------------- input sets
\* concurrent request slots
ProcIds == {"p1", "p2"}
UserIds == {"u1", "u2"}
\* ids uuid4() generates for the users registered during a run
RegIds == {"u3", "u4"}
\* a user id that no row of "users" carries
NoSuchUser == "u0"
\* the email of each user registered before the run
EmailOf == [u \in UserIds |-> IF u = "u1" THEN "a@x.io" ELSE "b@x.io"]
\* email form values: one registered before the run, one not, one malformed
Emails == {"a@x.io", "c@x.io", "invalid-email"}
\* ids uuid4() generates, in the order it generates them
FileIds == 1 .. MaxFiles
\* a well-formed uuid that no upload ever generates
NoSuchId == MaxFiles + 1
\* declared file_size form values
Sizes == {0, 500, 600, max_file_size_bytes + 1}
\* actual byte lengths of the uploaded ciphertext
ContentLens == {0, 9, max_file_size_bytes + 1}
\* encrypted_filename form values, each text as its rank in the order of the
\* encrypted_filename column (a smaller number sorts first)
Filenames == {1, 2}

VARIABLES
    users,      \* table "users": user id -> row
    files,      \* table "files": file id -> row, for the rows that exist
    objects,    \* object store bucket: the set of paths holding an object
    next_id,    \* how many ids uuid4() has generated
    faults,     \* whether the database and the object store can fail in this run
    procs       \* request slot -> the request it runs, its position and locals

vars == <<users, files, objects, next_id, faults, procs>>

\* no value (Python None / SQL NULL)
Null == [none |-> TRUE]

\* f"{user_id}/{file_id}.enc"
StoragePath(user_id, file_id) == <<user_id, file_id, "enc">>

\* a slot with no request in it
Idle == [op |-> "none", pc |-> "idle", user |-> "u1", fid |-> 0, size |-> 0,
         clen |-> 0, permanent |-> FALSE, page |-> 0, limit |-> 0,
         sort_by |-> "", order |-> <<>>, cur |-> 0, row |-> Null,
         items |-> <<>>, total |-> 0, total_pages |-> 0, url |-> Null,
         expires_in |-> 0, email |-> "", result |-> "none", bf |-> FALSE,
         aborted |-> FALSE, encrypted_filename |-> 0]

\* ------------------------------------------------------------- validators
validate_file_size(size, max_size) == 0 < size /\ size <= max_size

\* SecurityValidator.validate_file_upload: "" when valid, else the message class
validate_file_upload(clen, max_size) ==
    IF clen = 0 THEN "File data is empty"
    ELSE IF clen > max_size THEN "File size exceeds"
    ELSE ""

\* routes/files.py upload_file: the response a ValueError message maps to
UploadValueErrorResponse(msg) ==
    IF msg = "Storage quota exceeded" THEN "quota_exceeded"
    ELSE IF msg = "File size exceeds" THEN "too_large"
    ELSE "validation_error"

\* ------------------------------------------------------------- helpers
Finish(p, res, failed) ==
    [procs[p] EXCEPT !.pc = "done", !.result = res, !.bf = @ \/ failed,
                     !.cur = 0, !.row = Null]

\* ---------------------------------------------------- UserService (quota)
\* mutant: upload_file without the pre-check of lines 33-35
QuotaNeverChecked(user_id, file_size) == TRUE

\* check_storage_quota, lines 137-145, on a successful read
check_storage_quota(user_id, file_size) ==
    /\ user_id \in DOMAIN users
    /\ users[user_id].storage_used + file_size <= users[user_id].storage_limit

\* mutant: line 113 without max(0, ...)
NewUsedUnclamped(current_used, size_delta) == current_used + size_delta

\* update_storage_used line 113
NewUsed(current_used, size_delta) ==
    IF current_used + size_delta > 0 THEN current_used + size_delta ELSE 0

\* mutant: the limit check of lines 116-117 left out
ReserveNeverRejected(new_used, size_delta, storage_limit) == FALSE

\* mutant: the limit check of lines 116-117 with >= for >
ReserveRejectedAtLimit(new_used, size_delta, storage_limit) ==
    size_delta > 0 /\ new_used >= storage_limit

\* update_storage_used lines 116-117
ReserveRejected(new_used, size_delta, storage_limit) ==
    size_delta > 0 /\ new_used > storage_limit

\* ------------------------------------------------------------------ upload
\* upload_file lines 29-47: size validation, quota pre-check (one read of
\* "users"), content validation, id generation.
UploadCheck(p, callers, sizes, clens, names) ==
    /\ procs[p].pc = "idle"
    /\ \E u \in callers, size \in sizes, clen \in clens, name \in names :
        LET req == [Idle EXCEPT !.op = "upload", !.user = u, !.size = size,
                                !.clen = clen, !.encrypted_filename = name]
            done(res, failed) ==
                /\ procs' = [procs EXCEPT ![p] =
                        [req EXCEPT !.pc = "done", !.result = res, !.bf = failed,
                                    !.clen = 0]]
                /\ UNCHANGED next_id
        IN  /\ IF size <= 0
                 THEN \* FileUpload(file_size: gt=0) in the route
                      done("validation_error", FALSE)
               ELSE IF ~validate_file_size(size, max_file_size_bytes)
                 THEN done(UploadValueErrorResponse("File size exceeds"), FALSE)
               ELSE \/ \* the read of "users" raises: check_storage_quota returns False
                       /\ faults
                       /\ done(UploadValueErrorResponse("Storage quota exceeded"), TRUE)
                    \/ IF ~check_storage_quota(u, size)
                         THEN done(UploadValueErrorResponse("Storage quota exceeded"), FALSE)
                       ELSE IF validate_file_upload(clen, max_file_size_bytes) # ""
                         THEN done(UploadValueErrorResponse(
                                     validate_file_upload(clen, max_file_size_bytes)), FALSE)
                       ELSE /\ next_id < MaxFiles
                            /\ next_id' = next_id + 1
                            /\ procs' = [procs EXCEPT ![p] =
                                    [req EXCEPT !.pc = "put", !.fid = next_id + 1,
                                                !.clen = 0]]
    /\ UNCHANGED <<users, files, objects, faults>>

\* upload_file lines 50-54: StorageService.upload_file
UploadPut(p) ==
    /\ procs[p].op = "upload" /\ procs[p].pc = "put"
    /\ \/ /\ objects' = objects \cup {StoragePath(procs[p].user, procs[p].fid)}
          /\ procs' = [procs EXCEPT ![p].pc = "insert"]
       \/ \* the object store raises: "File upload failed"
          /\ faults
          /\ procs' = [procs EXCEPT ![p] = Finish(p, "internal_error", TRUE)]
          /\ UNCHANGED objects
    /\ UNCHANGED <<users, files, next_id, faults>>

\* datetime.utcnow() as a logical clock: it advances with every id generated,
\* so two rows created with no id generated in between carry equal stamps
Now == next_id

\* upload_file lines 57-67
FileRecord(p) ==
    [user_id |-> procs[p].user,
     encrypted_filename |-> procs[p].encrypted_filename,
     file_size |-> procs[p].size,
     storage_path |-> StoragePath(procs[p].user, procs[p].fid),
     uploaded_at |-> Now,
     last_accessed |-> Null,
     is_deleted |-> FALSE,
     deleted_at |-> Null]

\* table("files").insert(record): the table with the row added
CatalogInsert(file_id, record) ==
    [f \in DOMAIN files \cup {file_id} |-> IF f = file_id THEN record ELSE files[f]]

\* upload_file lines 69-77: the insert and what follows each of its outcomes
UploadInsert(p) ==
    /\ procs[p].op = "upload" /\ procs[p].pc = "insert"
    /\ \/ /\ files' = CatalogInsert(procs[p].fid, FileRecord(p))
          /\ procs' = [procs EXCEPT ![p].pc = "reserve_read"]
       \/ \* insert returns no data: clean the object up, then fail
          /\ faults
          /\ procs' = [procs EXCEPT ![p].pc = "cleanup", ![p].bf = TRUE]
          /\ UNCHANGED files
       \/ \* insert raises: caught at line 96, no cleanup
          /\ faults
          /\ procs' = [procs EXCEPT ![p] = Finish(p, "internal_error", TRUE)]
          /\ UNCHANGED files
    /\ UNCHANGED <<users, objects, next_id, faults>>

\* upload_file lines 73-77: best-effort delete of the object just written
UploadCleanup(p) ==
    /\ procs[p].op = "upload" /\ procs[p].pc = "cleanup"
    /\ \/ objects' = objects \ {StoragePath(procs[p].user, procs[p].fid)}
       \/ \* the delete raises: swallowed by the bare except
          UNCHANGED objects
    /\ procs' = [procs EXCEPT ![p] = Finish(p, "internal_error", TRUE)]
    /\ UNCHANGED <<users, files, next_id, faults>>

\* upload_file line 80 -> update_storage_used lines 105-117: read, compute, check
UploadReserveRead(p) ==
    /\ procs[p].op = "upload" /\ procs[p].pc = "reserve_read"
    /\ LET u == procs[p].user
           new_used == NewUsed(users[u].storage_used, procs[p].size)
       IN \/ IF u \notin DOMAIN users
               THEN procs' = [procs EXCEPT ![p] =
                        Finish(p, UploadValueErrorResponse("User not found"), FALSE)]
             ELSE IF ReserveRejected(new_used, procs[p].size, users[u].storage_limit)
               THEN procs' = [procs EXCEPT ![p] =
                        Finish(p, UploadValueErrorResponse("Storage quota exceeded"), FALSE)]
             ELSE procs' = [procs EXCEPT ![p].pc = "reserve_write", ![p].cur = new_used]
          \/ \* the read raises: "Failed to update storage usage" -> "File upload failed"
             /\ faults
             /\ procs' = [procs EXCEPT ![p] = Finish(p, "internal_error", TRUE)]
    /\ UNCHANGED <<users, files, objects, next_id, faults>>

\* update_storage_used lines 120-122: the users row gets the value computed
\* from the earlier read
StorageWrite(user_id, new_used) ==
    [users EXCEPT ![user_id].storage_used = new_used]

\* update_storage_used lines 120-125, then upload_file lines 82-91
UploadReserveWrite(p) ==
    /\ procs[p].op = "upload" /\ procs[p].pc = "reserve_write"
    /\ \/ /\ users' = StorageWrite(procs[p].user, procs[p].cur)
          /\ procs' = [procs EXCEPT ![p] = Finish(p, "ok", FALSE)]
       \/ \* the update raises
          /\ faults
          /\ procs' = [procs EXCEPT ![p] = Finish(p, "internal_error", TRUE)]
          /\ UNCHANGED users
    /\ UNCHANGED <<files, objects, next_id, faults>>

\* ------------------------------------------------------------ file catalog
\* mutant: the select of line 244 without .eq("user_id", user_id)
SelectAnyOwner(file_id, user_id) ==
    {f \in DOMAIN files : f = file_id}

\* table("files").select().eq("id", file_id).eq("user_id", user_id): the ids
\* of the rows a delete_file select matches (line 244)
SelectOwned(file_id, user_id) ==
    {f \in DOMAIN files : f = file_id /\ files[f].user_id = user_id}

\* mutant: the selects of lines 172 and 208 without .eq("is_deleted", False)
SelectWithDeleted(file_id, user_id) ==
    {f \in DOMAIN files : f = file_id /\ files[f].user_id = user_id}

\* the same with .eq("is_deleted", False) (lines 172, 208)
SelectLive(file_id, user_id) ==
    {f \in DOMAIN files :
        f = file_id /\ files[f].user_id = user_id /\ files[f].is_deleted = FALSE}

\* table("files").update({"last_accessed": now}).eq("id", file_id) (lines 180, 219)
TouchLastAccessed(file_id) ==
    [f \in DOMAIN files |->
        IF f = file_id THEN [files[f] EXCEPT !.last_accessed = TRUE] ELSE files[f]]

\* mutant: the update of lines 267-270 without .eq("id", file_id)
SoftDeleteEveryRow(file_id) ==
    [f \in DOMAIN files |-> [files[f] EXCEPT !.is_deleted = TRUE, !.deleted_at = TRUE]]

\* mutant: the update of lines 267-270 writing the negation of is_deleted
SoftDeleteToggles(file_id) ==
    [f \in DOMAIN files |->
        IF f = file_id THEN [files[f] EXCEPT !.is_deleted = ~@, !.deleted_at = TRUE]
        ELSE files[f]]

\* table("files").update({"is_deleted": True, "deleted_at": now}).eq("id", file_id)
\* (lines 267-270)
SoftDeleteRows(file_id) ==
    [f \in DOMAIN files |->
        IF f = file_id THEN [files[f] EXCEPT !.is_deleted = TRUE, !.deleted_at = TRUE]
        ELSE files[f]]

\* mutant: the delete of line 259 without .eq("id", file_id)
DeleteEveryRow(file_id) == [f \in {} |-> files[f]]

\* table("files").delete().eq("id", file_id) (line 259)
DeleteRows(file_id) ==
    [f \in DOMAIN files \ {file_id} |-> files[f]]

\* ids a request may carry: any id generated so far, or one never generated
TargetIds == (1 .. next_id) \cup {NoSuchId}

\* file_id texts that are not uuids, as numbers no uuid of the model has:
\* the text "not-a-uuid"
NotAUuid == 0 - 1
\* the 36 characters of a uuid that no file has, followed by "\n"
UuidNewline == 0 - 2
MalformedIds == {NotAUuid, UuidNewline}

\* ValidationUtils.validate_uuid: re.match of ^<8-4-4-4-12 hex digits>$ on the
\* lowercased text; "$" also matches before a newline that ends the text
validate_uuid(file_id) == file_id > 0 \/ file_id = UuidNewline

\* ------------------------------------------------------- get_file_metadata
\* get_file_metadata lines 169-177: the select
GetSelect(p, callers, ids) ==
    /\ procs[p].pc = "idle"
    /\ \E u \in callers, fid \in ids :
        LET req == [Idle EXCEPT !.op = "get", !.user = u, !.fid = fid]
        IN \/ IF ~validate_uuid(fid)
                THEN \* ValueError("Invalid file ID format") -> validation_error
                     procs' = [procs EXCEPT ![p] =
                        [req EXCEPT !.pc = "done", !.result = "validation_error"]]
              ELSE IF SelectLive(fid, u) = {}
                THEN \* no row, or the database rejects the id text: either way
                     \* return None -> APIResponse.not_found
                     procs' = [procs EXCEPT ![p] =
                        [req EXCEPT !.pc = "done", !.result = "not_found"]]
              ELSE procs' = [procs EXCEPT ![p] = [req EXCEPT !.pc = "touch"]]
           \/ \* the select raises: line 197-199 returns None
              /\ faults /\ validate_uuid(fid)
              /\ procs' = [procs EXCEPT ![p] =
                 [req EXCEPT !.pc = "done", !.result = "not_found", !.bf = TRUE]]
    /\ UNCHANGED <<users, files, objects, next_id, faults>>

\* routes/files.py lines 147-156: the route puts result.encrypted_metadata, a
\* FileMetadata object, into the data of APIResponse.success; JSONResponse
\* renders its content with json.dumps when it is constructed, which raises
\* TypeError for that object, so no response of the route can be rendered
GetMetadataResponseRenders == FALSE

\* get_file_metadata lines 180-192: last_accessed update, then the response
\* of the route: when it cannot be rendered, "except Exception" (routes/
\* files.py lines 160-162) answers "Failed to get file metadata"
GetTouch(p) ==
    /\ procs[p].op = "get" /\ procs[p].pc = "touch"
    /\ \/ /\ files' = TouchLastAccessed(procs[p].fid)
          /\ procs' = [procs EXCEPT ![p] =
                Finish(p, IF GetMetadataResponseRenders THEN "ok"
                          ELSE "internal_error", FALSE)]
       \/ \* the update raises: line 197-199 returns None
          /\ faults
          /\ procs' = [procs EXCEPT ![p] = Finish(p, "not_found", TRUE)]
          /\ UNCHANGED files
    /\ UNCHANGED <<users, objects, next_id, faults>>

\* ------------------------------------------------------------ download_file
\* download_file lines 204-213: the select
DownloadSelect(p, callers, ids) ==
    /\ procs[p].pc = "idle"
    /\ \E u \in callers, fid \in ids :
        LET req == [Idle EXCEPT !.op = "download", !.user = u, !.fid = fid]
        IN \/ IF ~validate_uuid(fid)
                THEN procs' = [procs EXCEPT ![p] =
                        [req EXCEPT !.pc = "done", !.result = "validation_error"]]
              ELSE IF SelectLive(fid, u) = {}
                THEN procs' = [procs EXCEPT ![p] =
                        [req EXCEPT !.pc = "done", !.result = "not_found"]]
              ELSE procs' = [procs EXCEPT ![p] =
                        [req EXCEPT !.pc = "sign", !.row = files[fid]]]
           \/ \* the select raises: line 233-235 returns None
              /\ faults /\ validate_uuid(fid)
              /\ procs' = [procs EXCEPT ![p] =
                 [req EXCEPT !.pc = "done", !.result = "not_found", !.bf = TRUE]]
    /\ UNCHANGED <<users, files, objects, next_id, faults>>

\* download_file line 216: StorageService.create_signed_url
DownloadSign(p) ==
    /\ procs[p].op = "download" /\ procs[p].pc = "sign"
    /\ \/ procs' = [procs EXCEPT ![p].pc = "touch",
                                 ![p].url = procs[p].row.storage_path,
                                 ![p].expires_in = SignedUrlTtl]
       \/ \* the object store raises: line 233-235 returns None
          /\ faults
          /\ procs' = [procs EXCEPT ![p] = Finish(p, "not_found", TRUE)]
    /\ UNCHANGED <<users, files, objects, next_id, faults>>

\* download_file lines 219-228: last_accessed update, then the response
DownloadTouch(p) ==
    /\ procs[p].op = "download" /\ procs[p].pc = "touch"
    /\ \/ /\ files' = TouchLastAccessed(procs[p].fid)
          /\ procs' = [procs EXCEPT ![p] = Finish(p, "ok", FALSE)]
       \/ \* the update raises: line 233-235 returns None
          /\ faults
          /\ procs' = [procs EXCEPT ![p] =
                [Finish(p, "not_found", TRUE) EXCEPT !.url = Null, !.expires_in = 0]]
          /\ UNCHANGED files
    /\ UNCHANGED <<users, objects, next_id, faults>>

\* -------------------------------------------------------------- delete_file
\* mutant: line 251 without "or file_data.get('is_deleted', False)"
HardOnlyIfPermanent(permanent, row) == permanent

\* delete_file line 251: whether the delete is a hard delete
HardDelete(permanent, row) == permanent \/ row.is_deleted

\* delete_file lines 240-251: the select and the choice of soft or hard delete
DeleteSelect(p, callers, ids) ==
    /\ procs[p].pc = "idle"
    /\ \E u \in callers, fid \in ids, permanent \in BOOLEAN :
        LET req == [Idle EXCEPT !.op = "delete", !.user = u, !.fid = fid,
                                !.permanent = permanent]
        IN \/ IF ~validate_uuid(fid)
                THEN \* ValueError("Invalid file ID format") -> validation_error
                     procs' = [procs EXCEPT ![p] =
                        [req EXCEPT !.pc = "done", !.result = "validation_error"]]
              ELSE IF SelectOwned(fid, u) = {}
                THEN \* ValueError("File not found") -> APIResponse.not_found
                     procs' = [procs EXCEPT ![p] =
                        [req EXCEPT !.pc = "done", !.result = "not_found"]]
              ELSE IF HardDelete(permanent, files[fid])
                THEN procs' = [procs EXCEPT ![p] =
                        [req EXCEPT !.pc = "hard_object", !.row = files[fid]]]
              ELSE procs' = [procs EXCEPT ![p] =
                        [req EXCEPT !.pc = "soft", !.row = files[fid]]]
           \/ \* the select raises: "File deletion failed"
              /\ faults /\ validate_uuid(fid)
              /\ procs' = [procs EXCEPT ![p] =
                 [req EXCEPT !.pc = "done", !.result = "internal_error", !.bf = TRUE]]
           \/ \* the database rejects the id text: "File deletion failed"
              /\ fid = UuidNewline
              /\ procs' = [procs EXCEPT ![p] =
                 [req EXCEPT !.pc = "done", !.result = "internal_error"]]
    /\ UNCHANGED <<users, files, objects, next_id, faults>>

\* delete_file lines 253-256: object removal, failure only logged
DeleteObject(p) ==
    /\ procs[p].op = "delete" /\ procs[p].pc = "hard_object"
    /\ \/ objects' = objects \ {procs[p].row.storage_path}
       \/ \* the delete raises: logged at line 256, the delete goes on
          /\ faults
          /\ UNCHANGED objects
    /\ procs' = [procs EXCEPT ![p].pc = "hard_row"]
    /\ UNCHANGED <<users, files, next_id, faults>>

\* delete_file line 259: row removal
DeleteRow(p) ==
    /\ procs[p].op = "delete" /\ procs[p].pc = "hard_row"
    /\ \/ /\ files' = DeleteRows(procs[p].fid)
          /\ procs' = [procs EXCEPT ![p].pc = "release_read"]
       \/ \* the statement raises: "File deletion failed"
          /\ faults
          /\ procs' = [procs EXCEPT ![p] = Finish(p, "internal_error", TRUE)]
          /\ UNCHANGED files
    /\ UNCHANGED <<users, objects, next_id, faults>>

\* delete_file line 262 -> update_storage_used lines 105-117 with a negative delta
DeleteReleaseRead(p) ==
    /\ procs[p].op = "delete" /\ procs[p].pc = "release_read"
    /\ LET u == procs[p].user
           delta == 0 - procs[p].row.file_size
           new_used == NewUsed(users[u].storage_used, delta)
       IN \/ IF u \notin DOMAIN users
               THEN \* ValueError("User not found") holds "not found"
                    procs' = [procs EXCEPT ![p] = Finish(p, "not_found", FALSE)]
             ELSE IF ReserveRejected(new_used, delta, users[u].storage_limit)
               THEN procs' = [procs EXCEPT ![p] = Finish(p, "validation_error", FALSE)]
             ELSE procs' = [procs EXCEPT ![p].pc = "release_write", ![p].cur = new_used]
          \/ \* the read raises: "File deletion failed"
             /\ faults
             /\ procs' = [procs EXCEPT ![p] = Finish(p, "internal_error", TRUE)]
    /\ UNCHANGED <<users, files, objects, next_id, faults>>

\* update_storage_used lines 120-125, then delete_file lines 264-277
DeleteReleaseWrite(p) ==
    /\ procs[p].op = "delete" /\ procs[p].pc = "release_write"
    /\ \/ /\ users' = StorageWrite(procs[p].user, procs[p].cur)
          /\ procs' = [procs EXCEPT ![p] = Finish(p, "ok", FALSE)]
       \/ \* the update raises
          /\ faults
          /\ procs' = [procs EXCEPT ![p] = Finish(p, "internal_error", TRUE)]
          /\ UNCHANGED users
    /\ UNCHANGED <<files, objects, next_id, faults>>

\* delete_file lines 267-277: the soft delete
DeleteSoft(p) ==
    /\ procs[p].op = "delete" /\ procs[p].pc = "soft"
    /\ \/ /\ files' = SoftDeleteRows(procs[p].fid)
          /\ procs' = [procs EXCEPT ![p] = Finish(p, "ok", FALSE)]
       \/ \* the statement raises: "File deletion failed"
          /\ faults
          /\ procs' = [procs EXCEPT ![p] = Finish(p, "internal_error", TRUE)]
          /\ UNCHANGED files
    /\ UNCHANGED <<users, objects, next_id, faults>>

\* --------------------------------------------------------- list_user_files
\* ValidationUtils.validate_pagination_params
validate_pagination_params(page, limit) ==
    IF page < 1 THEN "Page must be a positive integer"
    ELSE IF limit < 1 \/ limit > 100 THEN "Limit must be between 1 and 100"
    ELSE ""

\* An order text is the sequence of its characters.
\* the texts "asc" and "desc"
OrderAsc == <<"a", "s", "c">>
OrderDesc == <<"d", "e", "s", "c">>
\* the texts "ASC" and "up", as a request may send them
OrderUpperAsc == <<"A", "S", "C">>
OrderUp == <<"u", "p">>

\* FileQueryParams (models/file.py lines 45-49), which list_user_files takes
\* as its argument: page >= 1, limit in 1 .. 100, order matching ^(asc|desc)$;
\* sort_by is any text. The route declares the same constraints on its
\* query parameters (routes/files.py lines 82-85).
FileQueryParamsAccepts(page, limit, sort_by, order) ==
    /\ page >= 1
    /\ limit >= 1 /\ limit <= 100
    /\ order \in {OrderAsc, OrderDesc}

\* the upper-case letters and, at the same positions, their lower-case forms
UpperLetters == <<"A", "B", "C", "D", "E", "F", "G", "H", "I", "J", "K", "L", "M",
                  "N", "O", "P", "Q", "R", "S", "T", "U", "V", "W", "X", "Y", "Z">>
LowerLetters == <<"a", "b", "c", "d", "e", "f", "g", "h", "i", "j", "k", "l", "m",
                  "n", "o", "p", "q", "r", "s", "t", "u", "v", "w", "x", "y", "z">>

\* str.lower() on one character: an upper-case letter becomes its lower-case
\* form, any other character stays
LowerChar(c) ==
    IF \E i \in 1 .. Len(UpperLetters) : UpperLetters[i] = c
      THEN LowerLetters[CHOOSE i \in 1 .. Len(UpperLetters) : UpperLetters[i] = c]
    ELSE c

\* str.lower() (validators.py line 73, file_service.py line 120)
lower(text) == [i \in 1 .. Len(text) |-> LowerChar(text[i])]

\* ValidationUtils.validate_sort_params
validate_sort_params(sort_by, order) ==
    IF sort_by \notin {"uploaded_at", "file_size", "encrypted_filename"}
        THEN "Invalid sort field"
    ELSE IF lower(order) \notin {OrderAsc, OrderDesc}
        THEN "Order must be 'asc' or 'desc'"
    ELSE ""

\* line 117: select("*").eq("user_id", user_id).eq("is_deleted", False)
ListQueryRows(user_id) ==
    {f \in DOMAIN files : files[f].user_id = user_id /\ files[f].is_deleted = FALSE}

\* mutant: the count query of line 126 without .eq("is_deleted", False)
CountQueryRowsWithDeleted(user_id) ==
    {f \in DOMAIN files : files[f].user_id = user_id}

\* line 126: select("id", count="exact").eq("user_id", user_id).eq("is_deleted", False)
CountQueryRows(user_id) ==
    {f \in DOMAIN files : files[f].user_id = user_id /\ files[f].is_deleted = FALSE}

\* the value of the column sort_by in row f
SortKey(f, sort_by) ==
    CASE sort_by = "file_size" -> files[f].file_size
      [] sort_by = "encrypted_filename" -> files[f].encrypted_filename
      [] OTHER -> files[f].uploaded_at

\* lines 120-123: the orders query.order(sort_by, desc) may return; rows with
\* equal keys come in any order
OrderedRows(rows, sort_by, order) ==
    {s \in [1 .. Cardinality(rows) -> rows] :
        /\ \A i, j \in 1 .. Cardinality(rows) : i # j => s[i] # s[j]
        /\ \A i, j \in 1 .. Cardinality(rows) :
              i < j => IF lower(order) = OrderDesc
                         THEN SortKey(s[i], sort_by) >= SortKey(s[j], sort_by)
                         ELSE SortKey(s[i], sort_by) <= SortKey(s[j], sort_by)}

\* line 130: query.range(first, last), both inclusive, 0-based
RangeOf(s, first, last) ==
    SubSeq(s, first + 1, IF last + 1 < Len(s) THEN last + 1 ELSE Len(s))

\* line 148
TotalPages(total_count, limit) == (total_count + limit - 1) \div limit

\* list_user_files lines 104-127: validation and the count query
ListCount(p, callers, pages, limits, sorts, orders) ==
    /\ procs[p].pc = "idle"
    /\ \E u \in callers, page \in pages, limit \in limits,
          sort_by \in sorts, order \in orders :
        LET req == [Idle EXCEPT !.op = "list", !.user = u, !.page = page,
                                !.limit = limit, !.sort_by = sort_by, !.order = order]
        IN IF ~FileQueryParamsAccepts(page, limit, sort_by, order)
                \/ validate_pagination_params(page, limit) # ""
                \/ validate_sort_params(sort_by, order) # ""
             THEN procs' = [procs EXCEPT ![p] =
                     [req EXCEPT !.pc = "done", !.result = "validation_error"]]
           ELSE \/ procs' = [procs EXCEPT ![p] =
                     [req EXCEPT !.pc = "page",
                                 !.total = Cardinality(CountQueryRows(u))]]
                \/ \* the count query raises: "Failed to list files"
                   /\ faults
                   /\ procs' = [procs EXCEPT ![p] =
                     [req EXCEPT !.pc = "done", !.result = "internal_error", !.bf = TRUE]]
    /\ UNCHANGED <<users, files, objects, next_id, faults>>

\* FileListResult(files=files, ...) at line 157: the field is declared
\* List[FileListResponse] (models/file.py line 42) and lines 136-145 fill the
\* list with FileResponse objects, a different model class that is neither a
\* FileListResponse nor a dict; pydantic accepts the list only when it holds
\* no element, and raises ValidationError, a ValueError, otherwise
FileListResultAccepts(files_list) == files_list = <<>>

\* list_user_files lines 130-164: the page query and the response
ListPage(p) ==
    /\ procs[p].op = "list" /\ procs[p].pc = "page"
    /\ LET offset == (procs[p].page - 1) * procs[p].limit
       IN \/ \E s \in OrderedRows(ListQueryRows(procs[p].user),
                                   procs[p].sort_by, procs[p].order) :
                LET files_list == RangeOf(s, offset, offset + procs[p].limit - 1)
                IN IF FileListResultAccepts(files_list)
                     THEN procs' = [procs EXCEPT ![p] =
                            [Finish(p, "ok", FALSE) EXCEPT
                                !.items = files_list,
                                !.total_pages =
                                    TotalPages(procs[p].total, procs[p].limit)]]
                   ELSE \* re-raised at line 159; the route answers 422
                        procs' = [procs EXCEPT ![p] =
                            [Finish(p, "validation_error", FALSE) EXCEPT !.total = 0]]
          \/ \* the page query raises: "Failed to list files"
             /\ faults
             /\ procs' = [procs EXCEPT ![p] =
                    [Finish(p, "internal_error", TRUE) EXCEPT !.total = 0]]
    /\ UNCHANGED <<users, files, objects, next_id, faults>>

\* the steps of upload_file after the checks: put, insert, cleanup, reserve
UploadSequencePcs == {"put", "insert", "cleanup", "reserve_read", "reserve_write"}

\* The caller of an upload goes away between two steps of the sequence.
\* upload_file has no handler for it (lines 93-98 catch ValueError and
\* Exception only, there is no finally), and the calls it awaits (config/
\* storage.py, user_service.py) use the synchronous client and never suspend,
\* so a cancellation cannot be delivered between the steps: the request is
\* marked and its remaining steps run as for any other upload.
UploadAbort(p) ==
    /\ procs[p].op = "upload" /\ procs[p].pc \in UploadSequencePcs
    /\ ~procs[p].aborted
    /\ procs' = [procs EXCEPT ![p].aborted = TRUE]
    /\ UNCHANGED <<users, files, objects, next_id, faults>>

\* ------------------------------------- update_storage_used called directly
\* size_delta values of the direct calls
Deltas == {0 - 600, 0 - 500, 500, 600}

\* update_storage_used lines 105-117: the read of "users", new_used, the check
UpdateStorageRead(p, callers, deltas) ==
    /\ procs[p].pc = "idle"
    /\ \E u \in callers, size_delta \in deltas :
        LET req == [Idle EXCEPT !.op = "update_storage", !.user = u,
                                !.size = size_delta]
            new_used == NewUsed(users[u].storage_used, size_delta)
        IN \/ IF u \notin DOMAIN users
                THEN \* ValueError("User not found")
                     procs' = [procs EXCEPT ![p] =
                        [req EXCEPT !.pc = "done", !.result = "user_not_found"]]
              ELSE IF ReserveRejected(new_used, size_delta, users[u].storage_limit)
                THEN \* ValueError("Storage quota exceeded")
                     procs' = [procs EXCEPT ![p] =
                        [req EXCEPT !.pc = "done", !.result = "quota_exceeded"]]
              ELSE procs' = [procs EXCEPT ![p] =
                        [req EXCEPT !.pc = "update_write", !.cur = new_used]]
           \/ \* the select raises: "Failed to update storage usage"
              /\ faults
              /\ procs' = [procs EXCEPT ![p] =
                 [req EXCEPT !.pc = "done", !.result = "internal_error", !.bf = TRUE]]
    /\ UNCHANGED <<users, files, objects, next_id, faults>>

\* update_storage_used lines 120-125: the update and return True
UpdateStorageWrite(p) ==
    /\ procs[p].op = "update_storage" /\ procs[p].pc = "update_write"
    /\ \/ /\ users' = StorageWrite(procs[p].user, procs[p].cur)
          /\ procs' = [procs EXCEPT ![p] =
                [procs[p] EXCEPT !.pc = "done", !.result = "ok"]]
       \/ \* the update raises: "Failed to update storage usage"
          /\ faults
          /\ procs' = [procs EXCEPT ![p] =
                [procs[p] EXCEPT !.pc = "done", !.result = "internal_error",
                                 !.bf = TRUE]]
          /\ UNCHANGED users
    /\ UNCHANGED <<files, objects, next_id, faults>>

\* ------------------------------------------------------------ AuthService
\* ValidationUtils.validate_email on the email form values
validate_email(email) == email # "invalid-email"

\* table("users").select("id").eq("email", email): the ids of the rows matched
UsersWithEmail(email) == {u \in DOMAIN users : users[u].email = email}

\* registrations between their select and their insert
Registering == {q \in ProcIds : procs[q].op = "register" /\ procs[q].pc = "reg_insert"}

\* register_user lines 75-92: input validation, the select by email, the id
RegisterSelect(p, emails) ==
    /\ procs[p].pc = "idle"
    /\ \E email \in emails, creds_valid \in BOOLEAN :
        LET req == [Idle EXCEPT !.op = "register", !.email = email]
        IN \/ IF ~validate_email(email) \/ ~creds_valid
                THEN procs' = [procs EXCEPT ![p] =
                        [req EXCEPT !.pc = "done", !.result = "validation_error"]]
              ELSE IF UsersWithEmail(email) # {}
                THEN \* ValueError("Email already registered") -> APIResponse.conflict
                     procs' = [procs EXCEPT ![p] =
                        [req EXCEPT !.pc = "done", !.result = "conflict"]]
              ELSE /\ Cardinality(RegIds \ DOMAIN users) > Cardinality(Registering)
                   /\ procs' = [procs EXCEPT ![p] = [req EXCEPT !.pc = "reg_insert"]]
           \/ \* the select raises: "Registration failed"
              /\ faults /\ validate_email(email) /\ creds_valid
              /\ procs' = [procs EXCEPT ![p] =
                 [req EXCEPT !.pc = "done", !.result = "internal_error", !.bf = TRUE]]
    /\ UNCHANGED <<users, files, objects, next_id, faults>>

\* register_user lines 99-108: the row of a new user
UserRecord(email) ==
    [email |-> email, storage_used |-> 0, storage_limit |-> StorageLimit,
     is_active |-> TRUE]

\* table("users").insert(record): the table with the row added
UsersInsert(user_id, record) ==
    [u \in DOMAIN users \cup {user_id} |-> IF u = user_id THEN record ELSE users[u]]

\* register_user lines 110-121: the insert and the response
RegisterInsert(p) ==
    /\ procs[p].op = "register" /\ procs[p].pc = "reg_insert"
    /\ \/ /\ users' = UsersInsert(CHOOSE r \in RegIds : r \notin DOMAIN users,
                                    UserRecord(procs[p].email))
          /\ procs' = [procs EXCEPT ![p] = Finish(p, "ok", FALSE)]
       \/ \* the insert raises or returns no data: "Registration failed"
          /\ faults
          /\ procs' = [procs EXCEPT ![p] = Finish(p, "internal_error", TRUE)]
          /\ UNCHANGED users
    /\ UNCHANGED <<files, objects, next_id, faults>>

\* UserService.deactivate_user lines 168-170: one update of is_active
DeactivateUser(targets) ==
    /\ \E u \in targets \cap DOMAIN users :
          /\ users[u].is_active
          /\ users' = [users EXCEPT ![u].is_active = FALSE]
    /\ UNCHANGED <<files, objects, next_id, faults, procs>>

\* the response has been sent; the slot takes the next request
Return(p) ==
    /\ procs[p].pc = "done"
    /\ procs' = [procs EXCEPT ![p] = Idle]
    /\ UNCHANGED <<users, files, objects, next_id, faults>>

\* ------------------------------------------------------------------- init
\* register_user, auth_service.py lines 99-108: storage_used 0, active
Init ==
    /\ users = [u \in UserIds |->
                  [email |-> EmailOf[u], storage_used |-> 0,
                   storage_limit |-> StorageLimit, is_active |-> TRUE]]
    /\ files = << >>
    /\ objects = {}
    /\ next_id = 0
    /\ faults \in BOOLEAN
    /\ procs = [p \in ProcIds |-> Idle]

InFlight(p) == procs[p].pc \notin {"idle", "done"}

\* no request is between two of its steps
Quiescent == \A p \in ProcIds : ~InFlight(p)

\* uploads and deletes of one user, two requests at a time
QuotaNext ==
    \E p \in ProcIds :
        \/ UploadCheck(p, {"u1"}, Sizes, ContentLens, {1})
        \/ UploadPut(p)
        \/ UploadInsert(p)
        \/ UploadCleanup(p)
        \/ UploadReserveRead(p)
        \/ UploadReserveWrite(p)
        \/ DeleteSelect(p, {"u1"}, TargetIds)
        \/ DeleteObject(p)
        \/ DeleteRow(p)
        \/ DeleteReleaseRead(p)
        \/ DeleteReleaseWrite(p)
        \/ DeleteSoft(p)
        \/ Return(p)

QuotaSpec == Init /\ [][QuotaNext]_vars

DeleteInFlight == \E q \in ProcIds : procs[q].op = "delete" /\ InFlight(q)

\* uploads of one user run two at a time; a delete starts only when no request
\* is in progress, and no request starts before it has completed
SoloDeleteNext ==
    \E p \in ProcIds :
        \/ ~DeleteInFlight /\ UploadCheck(p, {"u1"}, {500, 600}, {9}, {1})
        \/ UploadPut(p)
        \/ UploadInsert(p)
        \/ UploadCleanup(p)
        \/ UploadReserveRead(p)
        \/ UploadReserveWrite(p)
        \/ Quiescent /\ DeleteSelect(p, {"u1"}, TargetIds)
        \/ DeleteObject(p)
        \/ DeleteRow(p)
        \/ DeleteReleaseRead(p)
        \/ DeleteReleaseWrite(p)
        \/ DeleteSoft(p)
        \/ Return(p)

SoloDeleteSpec == Init /\ [][SoloDeleteNext]_vars

\* one upload of floor(storage_limit / 2) + 1 bytes per slot, for the fresh
\* user u1, all at once; the slots do not take a second request
RaceNext ==
    \E p \in ProcIds :
        \/ UploadCheck(p, {"u1"}, {(StorageLimit \div 2) + 1}, {9}, {1})
        \/ UploadPut(p)
        \/ UploadInsert(p)
        \/ UploadCleanup(p)
        \/ UploadReserveRead(p)
        \/ UploadReserveWrite(p)

RaceSpec == Init /\ [][RaceNext]_vars

\* slot p1 uploads and deletes files of u1; slot p2 serves reads, downloads
\* and deletes of any user for any id, interleaved with p1's steps
AccessNext ==
    \/ UploadCheck("p1", {"u1"}, {600}, {9}, {1})
    \/ DeleteSelect("p1", {"u1"}, TargetIds)
    \/ GetSelect("p2", UserIds, TargetIds)
    \/ DownloadSelect("p2", UserIds, TargetIds)
    \/ DeleteSelect("p2", UserIds, TargetIds)
    \/ \E p \in ProcIds :
        \/ UploadPut(p)
        \/ UploadInsert(p)
        \/ UploadCleanup(p)
        \/ UploadReserveRead(p)
        \/ UploadReserveWrite(p)
        \/ GetTouch(p)
        \/ DownloadSign(p)
        \/ DownloadTouch(p)
        \/ DeleteObject(p)
        \/ DeleteRow(p)
        \/ DeleteReleaseRead(p)
        \/ DeleteReleaseWrite(p)
        \/ DeleteSoft(p)
        \/ Return(p)

AccessSpec == Init /\ [][AccessNext]_vars

\* slot p1 uploads for both users and deletes files of u1; slot p2 lists the
\* files of u1, its two queries interleaved with p1's steps
ListNext ==
    \/ UploadCheck("p1", UserIds, {500, 600}, {9}, {1})
    \/ DeleteSelect("p1", {"u1"}, TargetIds)
    \/ ListCount("p2", {"u1"}, {1, 2}, {1, 2}, {"file_size"},
                 {OrderAsc, OrderDesc})
    \/ \E p \in ProcIds :
        \/ UploadPut(p)
        \/ UploadInsert(p)
        \/ UploadCleanup(p)
        \/ UploadReserveRead(p)
        \/ UploadReserveWrite(p)
        \/ DeleteObject(p)
        \/ DeleteRow(p)
        \/ DeleteReleaseRead(p)
        \/ DeleteReleaseWrite(p)
        \/ DeleteSoft(p)
        \/ ListPage(p)
        \/ Return(p)

ListSpec == Init /\ [][ListNext]_vars

\* no slot holds a request or a response
AllIdle == \A p \in ProcIds : procs[p].pc = "idle"

\* one request at a time for u1: an upload of 600 bytes while no id has been
\* generated, uploads of 500 bytes once one id has been generated, deletes
\* and listings at any time
ScenarioNext ==
    \E p \in ProcIds :
        \/ AllIdle /\ next_id = 0 /\ UploadCheck(p, {"u1"}, {600}, {9}, Filenames)
        \/ AllIdle /\ next_id = 1 /\ UploadCheck(p, {"u1"}, {500}, {9}, Filenames)
        \/ AllIdle /\ DeleteSelect(p, {"u1"}, TargetIds)
        \/ AllIdle /\ ListCount(p, {"u1"}, {1}, {2}, {"uploaded_at"}, {OrderDesc})
        \/ UploadPut(p)
        \/ UploadInsert(p)
        \/ UploadCleanup(p)
        \/ UploadReserveRead(p)
        \/ UploadReserveWrite(p)
        \/ DeleteObject(p)
        \/ DeleteRow(p)
        \/ DeleteReleaseRead(p)
        \/ DeleteReleaseWrite(p)
        \/ DeleteSoft(p)
        \/ ListPage(p)
        \/ Return(p)

ScenarioSpec == Init /\ [][ScenarioNext]_vars

RECURSIVE SumTo(_, _)
SumTo(size_of, n) == IF n = 0 THEN 0 ELSE size_of[n] + SumTo(size_of, n - 1)

\* the state after u1 has uploaded n files of 100 or 200 bytes, one at a
\* time, and soft-deleted some of them
PagesInit ==
    \E n \in 0 .. MaxRows : \E del \in [1 .. n -> BOOLEAN] :
      \E name_of \in [1 .. n -> Filenames] :
        LET size_of == [f \in 1 .. n |-> 100 * ((f % 2) + 1)]
        IN /\ files = [f \in 1 .. n |->
                        [user_id |-> "u1", encrypted_filename |-> name_of[f],
                         file_size |-> size_of[f],
                         storage_path |-> StoragePath("u1", f), uploaded_at |-> f,
                         last_accessed |-> Null, is_deleted |-> del[f],
                         deleted_at |-> IF del[f] THEN TRUE ELSE Null]]
           /\ objects = {StoragePath("u1", f) : f \in 1 .. n}
           /\ next_id = n
           /\ users = [u \in UserIds |->
                  [email |-> EmailOf[u],
                   storage_used |-> IF u = "u1" THEN SumTo(size_of, n) ELSE 0,
                   storage_limit |-> StorageLimit, is_active |-> TRUE]]
           /\ faults \in BOOLEAN
           /\ procs = [p \in ProcIds |-> Idle]

\* listings of the files of u1, for the pages and limits of the request
PagesNext ==
    \E p \in ProcIds :
        \/ AllIdle /\ ListCount(p, {"u1"}, {1, 2, 3}, {1, 2, 3, 100},
                                 {"uploaded_at", "file_size", "encrypted_filename"},
                                 {OrderAsc, OrderDesc})
        \/ ListPage(p)
        \/ Return(p)

PagesSpec == PagesInit /\ [][PagesNext]_vars

\* slot p1 uploads files of u1; slot p2 serves u1's reads, downloads, deletes
\* and listings, whose ids and query parameters may be malformed
ValidationNext ==
    \/ UploadCheck("p1", {"u1"}, {600}, {9}, {1})
    \/ GetSelect("p2", {"u1"}, TargetIds \cup MalformedIds)
    \/ DownloadSelect("p2", {"u1"}, TargetIds \cup MalformedIds)
    \/ DeleteSelect("p2", {"u1"}, TargetIds \cup MalformedIds)
    \/ ListCount("p2", {"u1"}, {0, 1}, {0, 1, 101}, {"file_size", "name"},
                 {OrderAsc, OrderUpperAsc, OrderUp})
    \/ \E p \in ProcIds :
        \/ UploadPut(p)
        \/ UploadInsert(p)
        \/ UploadCleanup(p)
        \/ UploadReserveRead(p)
        \/ UploadReserveWrite(p)
        \/ GetTouch(p)
        \/ DownloadSign(p)
        \/ DownloadTouch(p)
        \/ DeleteObject(p)
        \/ DeleteRow(p)
        \/ DeleteReleaseRead(p)
        \/ DeleteReleaseWrite(p)
        \/ DeleteSoft(p)
        \/ ListPage(p)
        \/ Return(p)

ValidationSpec == Init /\ [][ValidationNext]_vars

\* uploads of one user, two at a time, whose callers may go away mid-sequence
AbortNext ==
    \E p \in ProcIds :
        \/ UploadCheck(p, {"u1"}, {500, 600}, {9}, {1})
        \/ UploadPut(p)
        \/ UploadInsert(p)
        \/ UploadCleanup(p)
        \/ UploadReserveRead(p)
        \/ UploadReserveWrite(p)
        \/ UploadAbort(p)
        \/ Return(p)

AbortSpec == Init /\ [][AbortNext]_vars

UploadInFlight == \E q \in ProcIds : procs[q].op = "upload" /\ InFlight(q)

\* uploads of 500 bytes for u1 run alone; deletes run two at a time, and start
\* only when no upload is in progress
PairDeleteNext ==
    \E p \in ProcIds :
        \/ Quiescent /\ UploadCheck(p, {"u1"}, {500}, {9}, {1})
        \/ UploadPut(p)
        \/ UploadInsert(p)
        \/ UploadCleanup(p)
        \/ UploadReserveRead(p)
        \/ UploadReserveWrite(p)
        \/ ~UploadInFlight /\ DeleteSelect(p, {"u1"}, TargetIds)
        \/ DeleteObject(p)
        \/ DeleteRow(p)
        \/ DeleteReleaseRead(p)
        \/ DeleteReleaseWrite(p)
        \/ DeleteSoft(p)
        \/ Return(p)

PairDeleteSpec == Init /\ [][PairDeleteNext]_vars

\* at most one upload of 500 bytes and at most one delete for u1 are in
\* progress at a time, and the two interleave
MixedNext ==
    \E p \in ProcIds :
        \/ ~UploadInFlight /\ UploadCheck(p, {"u1"}, {500}, {9}, {1})
        \/ UploadPut(p)
        \/ UploadInsert(p)
        \/ UploadCleanup(p)
        \/ UploadReserveRead(p)
        \/ UploadReserveWrite(p)
        \/ ~DeleteInFlight /\ DeleteSelect(p, {"u1"}, TargetIds)
        \/ DeleteObject(p)
        \/ DeleteRow(p)
        \/ DeleteReleaseRead(p)
        \/ DeleteReleaseWrite(p)
        \/ DeleteSoft(p)
        \/ Return(p)

MixedSpec == Init /\ [][MixedNext]_vars

\* slot p1 serves u1 and slot p2 serves u2: each uploads, and reads, downloads
\* and deletes with any id generated so far, its own or the other user's
IsolationNext ==
    \/ \E p \in ProcIds :
         LET u == IF p = "p1" THEN "u1" ELSE "u2"
         IN \/ UploadCheck(p, {u}, {600}, {9}, {1})
            \/ GetSelect(p, {u}, TargetIds)
            \/ DownloadSelect(p, {u}, TargetIds)
            \/ DeleteSelect(p, {u}, TargetIds)
            \/ ListCount(p, {u}, {1}, {1}, {"file_size"}, {OrderAsc})
    \/ \E p \in ProcIds :
        \/ UploadPut(p)
        \/ UploadInsert(p)
        \/ UploadCleanup(p)
        \/ UploadReserveRead(p)
        \/ UploadReserveWrite(p)
        \/ GetTouch(p)
        \/ DownloadSign(p)
        \/ DownloadTouch(p)
        \/ DeleteObject(p)
        \/ DeleteRow(p)
        \/ DeleteReleaseRead(p)
        \/ DeleteReleaseWrite(p)
        \/ DeleteSoft(p)
        \/ ListPage(p)
        \/ Return(p)

IsolationSpec == Init /\ [][IsolationNext]_vars

\* direct calls of update_storage_used for u1 and for a user id without row,
\* two at a time
LedgerNext ==
    \E p \in ProcIds :
        \/ UpdateStorageRead(p, {"u1", NoSuchUser}, Deltas)
        \/ UpdateStorageWrite(p)
        \/ Return(p)

LedgerSpec == Init /\ [][LedgerNext]_vars

\* registrations, two at a time
RegisterNext ==
    \E p \in ProcIds :
        \/ RegisterSelect(p, Emails)
        \/ RegisterInsert(p)
        \/ Return(p)

RegisterSpec == Init /\ [][RegisterNext]_vars

\* uploads for u1 and for a user id without row, two at a time; u1 may be
\* deactivated while no request is in progress
ActiveNext ==
    \/ Quiescent /\ DeactivateUser({"u1"})
    \/ \E p \in ProcIds :
        \/ UploadCheck(p, {"u1", NoSuchUser}, {500}, {9}, {1})
        \/ UploadPut(p)
        \/ UploadInsert(p)
        \/ UploadCleanup(p)
        \/ UploadReserveRead(p)
        \/ UploadReserveWrite(p)
        \/ Return(p)

ActiveSpec == Init /\ [][ActiveNext]_vars

\* ------------------------------------------------------------------ claims
RECURSIVE SumSizes(_)
SumSizes(rows) ==
    IF rows = {} THEN 0
    ELSE LET f == CHOOSE x \in rows : TRUE
         IN files[f].file_size + SumSizes(rows \ {f})

\* sum of file_size over the rows of a user, soft-deleted rows included
CatalogSum(user_id) ==
    SumSizes({f \in DOMAIN files : files[f].user_id = user_id})

\* C1: whenever no request is in progress, every user's storage_used equals
\* the sum of file_size over that user's rows in the catalog (stated for the
\* runs in which no backend call ever fails).
C1_UsageEqualsCatalogSum ==
    (~faults /\ Quiescent) =>
        \A u \in UserIds : users[u].storage_used = CatalogSum(u)

UploadsDone(ps) ==
    \A p \in ps : procs[p].op = "upload" /\ procs[p].pc = "done"

\* C2: when the uploads of floor(storage_limit / 2) + 1 bytes launched together
\* for a fresh user have all completed, exactly one has succeeded and every
\* other one has failed with quota exceeded.
C2_ExactlyOneConcurrentUploadSucceeds ==
    (~faults /\ UploadsDone(ProcIds)) =>
        /\ Cardinality({p \in ProcIds : procs[p].result = "ok"}) = 1
        /\ \A p \in ProcIds : procs[p].result \in {"ok", "quota_exceeded"}

\* C3: in every reachable state, whatever the interleaving of uploads and
\* deletes and whichever backend calls fail, every user has
\* 0 <= storage_used <= storage_limit, and storage_limit never changes.
C3_UsageWithinLimit ==
    \A u \in UserIds :
        /\ 0 <= users[u].storage_used
        /\ users[u].storage_used <= users[u].storage_limit
        /\ users[u].storage_limit = StorageLimit

\* C3 witness: an upload has succeeded while a hard delete of the same user,
\* having read storage_used, is about to write its release, and the catalog
\* holds more bytes than the limit allows.
C3_Witness ==
    /\ \E p \in ProcIds :
          procs[p].op = "upload" /\ procs[p].pc = "done" /\ procs[p].result = "ok"
    /\ \E q \in ProcIds : procs[q].op = "delete" /\ procs[q].pc = "release_write"
    /\ users["u1"].storage_used > 0

\* the step in which upload p ends, with a valid declared size and content
\* and without any backend failure
UploadEnds(p) ==
    /\ procs[p].pc # "done" /\ procs'[p].pc = "done"
    /\ procs'[p].op = "upload"
    /\ ~procs'[p].bf
    /\ procs'[p].result \in {"ok", "quota_exceeded"}

\* C4: an upload with a valid size and content and no backend failure ends
\* with quota exceeded exactly if storage_used + file_size > storage_limit in
\* the state in which it ends, and otherwise raises storage_used by file_size.
C4_QuotaExceededIffOverLimit ==
    [][\A p \in ProcIds : UploadEnds(p) =>
          LET u == procs'[p].user
              size == procs'[p].size
          IN /\ (procs'[p].result = "quota_exceeded") <=>
                    (users[u].storage_used + size > users[u].storage_limit)
             /\ (procs'[p].result = "ok") =>
                    (users'[u].storage_used = users[u].storage_used + size)]_vars

\* the step in which the hard delete p of an already soft-deleted row writes
\* its release
ReleaseOfSoftDeleted(p) ==
    /\ procs[p].op = "delete" /\ procs[p].pc = "release_write"
    /\ procs'[p].pc = "done" /\ procs'[p].result = "ok"
    /\ procs[p].row.is_deleted

\* C5: the hard delete of a soft-deleted file, run to completion with no
\* other request in progress, lowers the owner's storage_used by exactly the
\* file's file_size (stated for the runs in which no backend call ever fails).
C5_HardDeleteReleasesFileSize ==
    [][\A p \in ProcIds : (~faults /\ ReleaseOfSoftDeleted(p)) =>
          users'[procs[p].user].storage_used =
              users[procs[p].user].storage_used - procs[p].row.file_size]_vars

UploadFailed(p) ==
    procs[p].op = "upload" /\ procs[p].pc = "done" /\ procs[p].result # "ok"

\* C6: when an upload has reported failure, the catalog holds no row for it.
C6_FailedUploadLeavesNoRecord ==
    \A p \in ProcIds : UploadFailed(p) => procs[p].fid \notin DOMAIN files

\* C7: an upload rejected as too large, as quota exceeded or with a validation
\* error performed no mutating step: it wrote no object and inserted no row.
C7_RejectionBeforeMutation ==
    \A p \in ProcIds :
        (/\ procs[p].op = "upload" /\ procs[p].pc = "done"
         /\ procs[p].result \in {"too_large", "quota_exceeded", "validation_error"})
        => /\ StoragePath(procs[p].user, procs[p].fid) \notin objects
           /\ procs[p].fid \notin DOMAIN files

\* a completed get_file_metadata, download_file or delete_file
AccessDone(p) ==
    procs[p].pc = "done" /\ procs[p].op \in {"get", "download", "delete"}

\* what a request for an id that no file has returns: not found, or for a
\* delete whose select raised, the generic failure
AbsentOutcome(p) ==
    IF procs[p].op = "delete" /\ procs[p].bf THEN "internal_error" ELSE "not_found"

\* C8: for get_file_metadata, download_file and delete_file, the id of a file
\* of another user (live or soft-deleted) is treated as an id that no file
\* has: the selects match the same rows (none), and a completed request
\* carrying such an id has the outcome of one carrying an unknown id, without
\* a signed URL.
C8_ForeignIdLooksAbsent ==
    /\ \A a \in UserIds : \A f \in DOMAIN files :
          files[f].user_id # a =>
              /\ SelectLive(f, a) = SelectLive(NoSuchId, a)
              /\ SelectOwned(f, a) = SelectOwned(NoSuchId, a)
    /\ \A p \in ProcIds :
          (/\ AccessDone(p)
           /\ \/ procs[p].fid = NoSuchId
              \/ /\ procs[p].fid \in DOMAIN files
                 /\ files[procs[p].fid].user_id # procs[p].user)
          => /\ procs[p].result = AbsentOutcome(p)
             /\ procs[p].url = Null

\* C8 witness: a delete by u2 of a soft-deleted file of u1 has completed with
\* not found, and the file is still there.
C8_Witness ==
    \E p \in ProcIds :
        /\ AccessDone(p) /\ procs[p].op = "delete" /\ procs[p].user = "u2"
        /\ procs[p].fid \in DOMAIN files
        /\ files[procs[p].fid].user_id = "u1"
        /\ files[procs[p].fid].is_deleted
        /\ procs[p].result = "not_found" /\ ~procs[p].bf

\* the rows of a user that are not soft-deleted
LiveRowsOf(user_id) ==
    {f \in DOMAIN files : files[f].user_id = user_id /\ ~files[f].is_deleted}

\* C9: the page list_user_files returns holds only rows of the caller that are
\* not soft-deleted at the time of the page query, and the total it reports is
\* the number of such rows at the time of the count query, whatever the page
\* and the limit.
C9_ListReturnsOnlyLiveOwnRows ==
    [][\A p \in ProcIds :
          /\ (procs[p].pc = "idle" /\ procs'[p].op = "list" /\ procs'[p].pc = "page")
                => procs'[p].total = Cardinality(LiveRowsOf(procs'[p].user))
          /\ (procs[p].op = "list" /\ procs[p].pc = "page" /\ procs'[p].result = "ok")
                => /\ \A i \in 1 .. Len(procs'[p].items) :
                        procs'[p].items[i] \in LiveRowsOf(procs[p].user)
                   /\ procs'[p].total = procs[p].total]_vars

\* C9 witness: a listing of u1 has reported a total of 1 and returned its
\* second page of one row, which is empty, while the catalog holds one live
\* row of u1 and also a row of another user or a soft-deleted row.
C9_Witness ==
    \E p \in ProcIds :
        /\ procs[p].op = "list" /\ procs[p].pc = "done" /\ procs[p].result = "ok"
        /\ procs[p].page = 2 /\ procs[p].limit = 1
        /\ procs[p].items = <<>> /\ procs[p].total = 1
        /\ Cardinality(LiveRowsOf("u1")) = 1
        /\ \E g \in DOMAIN files : g \notin LiveRowsOf("u1")

\* C10: the write of a soft delete changes only is_deleted and deleted_at of
\* the row with the request's id: users, objects, the other fields of that
\* row and every other row stay as they are.
C10_SoftDeleteFrame ==
    [][\A p \in ProcIds :
          (procs[p].op = "delete" /\ procs[p].pc = "soft" /\ procs'[p].result = "ok")
          => /\ users' = users
             /\ objects' = objects
             /\ DOMAIN files' = DOMAIN files
             /\ \A f \in DOMAIN files :
                   files'[f] = IF f = procs[p].fid
                                 THEN [files[f] EXCEPT !.is_deleted = TRUE,
                                                       !.deleted_at = TRUE]
                               ELSE files[f]]_vars

\* C10 witness: a soft delete has completed; its row is marked deleted, its
\* object is still stored, its bytes are still counted, and another row of
\* the catalog is still live.
C10_Witness ==
    \E p \in ProcIds :
        /\ procs[p].op = "delete" /\ procs[p].pc = "done" /\ procs[p].result = "ok"
        /\ ~procs[p].permanent
        /\ procs[p].fid \in DOMAIN files
        /\ files[procs[p].fid].is_deleted
        /\ files[procs[p].fid].storage_path \in objects
        /\ users[procs[p].user].storage_used >= files[procs[p].fid].file_size
        /\ \E g \in DOMAIN files : ~files[g].is_deleted

\* the row of file A of the scenario: 600 bytes of u1 under the first id
RowA(deleted) ==
    /\ DOMAIN files = {1}
    /\ files[1].user_id = "u1" /\ files[1].file_size = 600
    /\ files[1].is_deleted = deleted

\* C11: with storage_limit 1000, one request at a time and no backend failure:
\* the upload of A (600) succeeds and storage_used is 600; an upload of B
\* (500) while A's row exists fails with quota exceeded and changes nothing;
\* the soft delete of A leaves storage_used at 600 and A out of the listing;
\* the hard delete of A gives storage_used 0; the upload of B then succeeds.
C11_SequentialScenario ==
    \A p \in ProcIds : (~faults /\ procs[p].pc = "done") =>
        LET r == procs[p]
            used == users["u1"].storage_used
        IN /\ (r.op = "upload" /\ r.size = 600) =>
                 r.result = "ok" /\ used = 600 /\ RowA(FALSE)
           /\ (r.op = "upload" /\ r.size = 500 /\ 1 \in DOMAIN files) =>
                 /\ r.result = "quota_exceeded" /\ used = 600
                 /\ DOMAIN files = {1} /\ objects = {StoragePath("u1", 1)}
           /\ (r.op = "upload" /\ r.size = 500 /\ 1 \notin DOMAIN files) =>
                 r.result = "ok" /\ used = 500 /\ DOMAIN files = {2}
           /\ (r.op = "delete" /\ r.fid = 1 /\ 1 \in DOMAIN files) =>
                 r.result = "ok" /\ used = 600 /\ RowA(TRUE)
           /\ (r.op = "delete" /\ r.fid = 1 /\ r.result = "ok"
                    /\ 1 \notin DOMAIN files) =>
                 used = 0 /\ objects = {}
           /\ (r.op = "list" /\ 1 \in DOMAIN files /\ files[1].is_deleted) =>
                 r.result = "ok" /\ r.items = <<>> /\ r.total = 0

\* C11 witness: the last step of the scenario: B (500) has been uploaded under
\* the second id after A was removed, and storage_used is 500
C11_Witness ==
    \E p \in ProcIds :
        /\ ~faults /\ procs[p].pc = "done" /\ procs[p].op = "upload"
        /\ procs[p].size = 500 /\ procs[p].fid = 2 /\ procs[p].result = "ok"
        /\ DOMAIN files = {2} /\ users["u1"].storage_used = 500

\* the row a get_file_metadata or download_file by user_id for file_id may
\* serve: it exists, belongs to user_id and is not soft-deleted
LiveOwned(file_id, user_id) ==
    /\ file_id \in DOMAIN files
    /\ files[file_id].user_id = user_id
    /\ ~files[file_id].is_deleted

\* C12: get_file_metadata and download_file go on past their catalog read
\* only if the row exists, is the caller's and is not soft-deleted at that
\* read; otherwise they answer not found without a signed URL.  They succeed
\* only from past that read; a successful download carries a URL with
\* expires_in 300, and no step of either changes the users table.
C12_ReadsServeOnlyLiveOwnRows ==
    [][\A p \in ProcIds :
          LET pre == procs[p]
              post == procs'[p]
          IN (post # pre /\ post.op \in {"get", "download"}) =>
               /\ users' = users
               /\ pre.pc = "idle" =>
                    /\ post.pc # "done" => LiveOwned(post.fid, post.user)
                    /\ post.pc = "done" => post.result # "ok" /\ post.url = Null
                    /\ ~LiveOwned(post.fid, post.user) =>
                          /\ post.pc = "done" /\ post.result = "not_found"
                          /\ post.url = Null
               /\ post.result = "ok" =>
                    /\ pre.pc = "touch"
                    /\ post.op = "download" =>
                          post.url # Null /\ post.expires_in = 300]_vars

\* C12 witness: a download of the caller's own soft-deleted file was answered
\* not found without any backend failure
C12_Witness ==
    \E p \in ProcIds :
        /\ procs[p].op = "download" /\ procs[p].pc = "done"
        /\ procs[p].result = "not_found" /\ ~procs[p].bf
        /\ procs[p].fid \in DOMAIN files
        /\ files[procs[p].fid].user_id = procs[p].user
        /\ files[procs[p].fid].is_deleted

\* C13: when a database or object-store call of get_file_metadata or
\* download_file fails for a file that exists, is the caller's and is not
\* soft-deleted, the request ends with the generic backend failure, never
\* with not found.
C13_BackendFailureIsNotNotFound ==
    [][\A p \in ProcIds :
          LET pre == procs[p]
              post == procs'[p]
          IN (/\ post.op \in {"get", "download"}
              /\ ~pre.bf /\ post.bf
              /\ LiveOwned(post.fid, post.user))
             => post.result = "internal_error"]_vars

\* the least k with k * b >= a
CeilDiv(a, b) == CHOOSE k \in 0 .. a : k * b >= a /\ (k = 0 \/ (k - 1) * b < a)

\* items holds exactly the entries of s at the 0-based offsets
\* (page - 1) * limit .. (page - 1) * limit + limit - 1 that s has
IsPageOf(items, s, page, limit) ==
    LET first == (page - 1) * limit
        offsets == {o \in first .. first + limit - 1 : o < Len(s)}
    IN /\ Len(items) = Cardinality(offsets)
       /\ \A o \in offsets : items[o - first + 1] = s[o + 1]

\* C14: a listing with valid parameters whose queries do not fail reports
\* total_pages = ceil(total / limit), 0 for total 0, and returns exactly the
\* rows at the offsets of its page in one sorted sequence of the caller's
\* live rows.
C14_PaginationArithmetic ==
    [][\A p \in ProcIds :
          (/\ procs[p].op = "list" /\ procs[p].pc = "page"
           /\ procs'[p].pc = "done" /\ ~procs'[p].bf)
          => LET r == procs'[p]
             IN /\ r.result = "ok"
                /\ r.total_pages = CeilDiv(r.total, r.limit)
                /\ r.total = 0 => r.total_pages = 0
                /\ \E s \in OrderedRows(LiveRowsOf(r.user), r.sort_by, r.order) :
                      IsPageOf(r.items, s, r.page, r.limit)]_vars

\* C15: a get_file_metadata, download_file or delete_file whose file_id is
\* not a well-formed uuid, and a list_user_files with page < 1, a limit
\* outside 1 .. 100, a sort_by outside the three sortable fields or an order
\* other than asc and desc, end at once with a validation error and change
\* nothing.
C15_MalformedInputRejected ==
    [][\A p \in ProcIds :
          LET post == procs'[p]
          IN (/\ procs[p].pc = "idle" /\ post.pc # "idle"
              /\ \/ /\ post.op \in {"get", "download", "delete"}
                    /\ post.fid \in MalformedIds
                 \/ /\ post.op = "list"
                    /\ \/ post.page < 1
                       \/ post.limit \notin 1 .. 100
                       \/ post.sort_by \notin
                              {"uploaded_at", "file_size", "encrypted_filename"}
                       \/ post.order \notin {OrderAsc, OrderDesc})
             => /\ post.pc = "done" /\ post.result = "validation_error"
                /\ UNCHANGED <<users, files, objects>>]_vars

\* C16: no two rows of "users" carry the same email, whatever registrations
\* ran and however they interleaved, and every row created by a registration
\* has storage_used 0.
C16_EmailsUnique ==
    /\ \A a, b \in DOMAIN users : a # b => users[a].email # users[b].email
    /\ \A u \in DOMAIN users \cap RegIds : users[u].storage_used = 0

\* the users for whom a file row may be inserted
ActiveUser(user_id) == user_id \in DOMAIN users /\ users[user_id].is_active

\* C17: a step of an upload for a user without row or with is_active = false
\* inserts no row into "files", writes no object and changes no storage_used.
C17_UploadOnlyForActiveUser ==
    [][\A p \in ProcIds :
          (/\ procs'[p] # procs[p] /\ procs'[p].op = "upload"
           /\ ~ActiveUser(procs'[p].user))
          => UNCHANGED <<files, objects, users>>]_vars

RECURSIVE SumGranted(_)
\* sum of the deltas of the reservations of the slots ps that returned success
SumGranted(ps) ==
    IF ps = {} THEN 0
    ELSE LET p == CHOOSE x \in ps : TRUE
         IN (IF procs[p].result = "ok" THEN procs[p].size ELSE 0)
                + SumGranted(ps \ {p})

\* C18: when the reservations that ran concurrently for the fresh user u1 have
\* all returned, storage_used is the initial value 0 plus the sum of the
\* deltas of those that returned success.
C18_NoLostReservation ==
    (~faults /\ UploadsDone(ProcIds)) =>
        users["u1"].storage_used = SumGranted(ProcIds)

\* C19: when the insert of an upload fails after the put (it returns no data
\* or it raises), the upload goes on to delete the object it wrote; that
\* delete is followed by the report of failure, and neither step adds a row
\* or changes storage_used or adds an object.
C19_InsertFailureCompensated ==
    [][\A p \in ProcIds :
          LET pre == procs[p]
              post == procs'[p]
          IN /\ (/\ pre.op = "upload" /\ pre.pc = "insert" /\ post # pre
                 /\ pre.fid \notin DOMAIN files')
                => post.pc = "cleanup" /\ UNCHANGED <<users, files, objects>>
             /\ (pre.op = "upload" /\ pre.pc = "cleanup" /\ post # pre)
                => /\ post.pc = "done" /\ post.result # "ok"
                   /\ UNCHANGED <<users, files>>
                   /\ objects' \subseteq objects]_vars

\* C20: a hard delete goes from the object delete to the row removal whether
\* or not the object delete failed, and from the row removal to the release;
\* when the object delete failed and nothing else did, the row is removed,
\* the caller gets success and storage_used is lower by the file's file_size.
C20_ObjectDeleteFailureTolerated ==
    [][\A p \in ProcIds :
          LET pre == procs[p]
              post == procs'[p]
          IN (pre.op = "delete" /\ post # pre) =>
               /\ pre.pc = "hard_object" => post.pc = "hard_row" /\ files' = files
               /\ (pre.pc = "hard_row" /\ ~post.bf) =>
                     /\ post.pc = "release_read"
                     /\ pre.fid \notin DOMAIN files' /\ users' = users
               /\ (/\ pre.pc = "release_write" /\ ~post.bf
                   /\ pre.row.storage_path \in objects)
                  => /\ post.result = "ok" /\ pre.fid \notin DOMAIN files
                     /\ users'[pre.user].storage_used =
                           users[pre.user].storage_used - pre.row.file_size]_vars

\* C21: a delete_file that found its row takes the hard path exactly when
\* permanent is true or the row read is soft-deleted, and the soft path
\* otherwise.  The soft path removes nothing.  Without backend failure a hard
\* delete that ran alone ends with the row removed, the object removed and
\* the release of file_size written; so does a second non-permanent delete
\* issued after the first completed.
C21_HardDeleteExactlyWhen ==
    [][\A p \in ProcIds :
          LET pre == procs[p]
              post == procs'[p]
          IN (post # pre /\ post.op = "delete") =>
               /\ (pre.pc = "idle" /\ post.pc # "done") =>
                     /\ post.pc \in {"hard_object", "soft"}
                     /\ post.pc = "hard_object" <=>
                           (post.permanent \/ files[post.fid].is_deleted)
               /\ pre.pc = "soft" =>
                     /\ DOMAIN files' = DOMAIN files
                     /\ objects' = objects /\ users' = users
               /\ (~faults /\ pre.pc = "release_write") =>
                     /\ post.result = "ok"
                     /\ pre.fid \notin DOMAIN files'
                     /\ pre.row.storage_path \notin objects'
                     /\ users'[pre.user].storage_used =
                           NewUsed(users[pre.user].storage_used,
                                   0 - pre.row.file_size)]_vars

\* C21 witness: a non-permanent delete of a file that had been soft-deleted
\* has completed: the row and the object are gone
C21_Witness ==
    \E p \in ProcIds :
        /\ ~faults /\ procs[p].op = "delete" /\ procs[p].pc = "done"
        /\ procs[p].result = "ok" /\ ~procs[p].permanent
        /\ procs[p].fid \in 1 .. next_id
        /\ procs[p].fid \notin DOMAIN files
        /\ StoragePath(procs[p].user, procs[p].fid) \notin objects

\* a step of a call of update_storage_used in which no database call failed
LedgerStep(p) ==
    /\ procs'[p] # procs[p] /\ procs'[p].op = "update_storage" /\ ~procs'[p].bf

\* C22: a call of update_storage_used with a positive delta for an existing
\* user fails with quota exceeded, writing nothing, when the storage_used it
\* reads plus delta exceeds storage_limit, and otherwise writes exactly that
\* sum; for a user without row it fails with user not found, writing nothing.
C22_ReserveContract ==
    [][\A p \in ProcIds :
          LET pre == procs[p]
              post == procs'[p]
              u == post.user
          IN (LedgerStep(p) /\ post.size > 0) =>
               /\ (pre.pc = "idle" /\ u \notin DOMAIN users) =>
                     /\ post.pc = "done" /\ post.result = "user_not_found"
                     /\ users' = users
               /\ (pre.pc = "idle" /\ u \in DOMAIN users) =>
                     IF users[u].storage_used + post.size > users[u].storage_limit
                       THEN /\ post.pc = "done" /\ post.result = "quota_exceeded"
                            /\ users' = users
                     ELSE /\ post.pc = "update_write"
                          /\ post.cur = users[u].storage_used + post.size
                          /\ users' = users
               /\ pre.pc = "update_write" =>
                     /\ post.result = "ok"
                     /\ users' = [users EXCEPT ![u].storage_used = pre.cur]]_vars

\* C22 witness: a reservation was refused with quota exceeded while
\* storage_used was 600, and storage_used is still 600
C22_Witness ==
    \E p \in ProcIds :
        /\ procs[p].op = "update_storage" /\ procs[p].pc = "done"
        /\ procs[p].size = 500 /\ procs[p].result = "quota_exceeded"
        /\ users["u1"].storage_used = 600
        /\ \A q \in ProcIds \ {p} : procs[q].pc = "idle"

\* the larger of 0 and n
Max0(n) == IF n > 0 THEN n ELSE 0

\* C23: a call of update_storage_used with a negative delta for an existing
\* user never fails with quota exceeded and writes max(0, storage_used -
\* |delta|) for the storage_used it reads: never a negative value, and
\* exactly storage_used - |delta| when |delta| <= storage_used.
C23_ReleaseClamps ==
    [][\A p \in ProcIds :
          LET pre == procs[p]
              post == procs'[p]
              u == post.user
          IN (LedgerStep(p) /\ post.size < 0 /\ u \in DOMAIN users) =>
               /\ pre.pc = "idle" =>
                     /\ post.pc = "update_write"
                     /\ post.cur = Max0(users[u].storage_used - (0 - post.size))
                     /\ post.cur >= 0
                     /\ (0 - post.size <= users[u].storage_used) =>
                           post.cur = users[u].storage_used - (0 - post.size)
               /\ pre.pc = "update_write" =>
                     /\ post.result = "ok"
                     /\ users' = [users EXCEPT ![u].storage_used = pre.cur]
               /\ post.result # "quota_exceeded"]_vars

\* C23 witness: a release of 600 bytes read storage_used = 500 and is about
\* to write 0
C23_Witness ==
    \E p \in ProcIds :
        /\ procs[p].op = "update_storage" /\ procs[p].pc = "update_write"
        /\ procs[p].size = 0 - 600 /\ procs[p].cur = 0
        /\ users["u1"].storage_used = 500
        /\ \A q \in ProcIds \ {p} : procs[q].pc = "idle"

\* C24: an upload whose caller went away during the put / insert / reserve
\* sequence ends either complete (object and row present, quota reserved) or
\* compensated (no row, no object, nothing reserved).
C24_AbortedUploadCompleteOrCompensated ==
    \A p \in ProcIds :
        (procs[p].op = "upload" /\ procs[p].pc = "done" /\ procs[p].aborted) =>
            LET fid == procs[p].fid
                path == StoragePath(procs[p].user, fid)
            IN \/ /\ procs[p].result = "ok"
                  /\ fid \in DOMAIN files /\ path \in objects
               \/ /\ procs[p].result # "ok"
                  /\ fid \notin DOMAIN files /\ path \notin objects

\* the permanent delete in slot p found its row, which sends it down the hard
\* path, and returned success
HardDeleteDone(p) ==
    /\ procs[p].op = "delete" /\ procs[p].pc = "done" /\ procs[p].result = "ok"
    /\ procs[p].permanent

\* C25: when two hard deletes of the same file of u1 ran concurrently and both
\* have returned, storage_used was lowered by the file's size at most once: it
\* is not below the sum of the sizes of u1's remaining rows (no backend call
\* failing, uploads having run alone).
C25_ConcurrentHardDeletesReleaseOnce ==
    \A p, q \in ProcIds :
        (/\ ~faults /\ p # q
         /\ HardDeleteDone(p) /\ HardDeleteDone(q)
         /\ procs[p].fid = procs[q].fid)
        => users["u1"].storage_used >= CatalogSum("u1")

\* C26: when an upload of u1 and a hard delete of another file of u1 ran
\* interleaved and both have returned success, storage_used is the sum of the
\* sizes of u1's remaining rows (no backend call failing).
C26_ReserveAndReleaseBothCount ==
    \A p, q \in ProcIds :
        (/\ ~faults
         /\ procs[p].op = "upload" /\ procs[p].pc = "done"
         /\ procs[p].result = "ok"
         /\ HardDeleteDone(q) /\ procs[q].fid # procs[p].fid)
        => users["u1"].storage_used = CatalogSum("u1")

\* C27: whenever no request is in progress, every row of the catalog, live or
\* soft-deleted, has storage_path {user_id}/{id}.enc for its own user_id and
\* id, and an object is stored at that path; backend calls may fail.
C27_EveryRowHasItsObject ==
    Quiescent =>
        \A f \in DOMAIN files :
            /\ files[f].storage_path = StoragePath(files[f].user_id, f)
            /\ files[f].storage_path \in objects

\* the rows of the catalog f that belong to user_id
RowsOf(f, user_id) ==
    [id \in {x \in DOMAIN f : f[x].user_id = user_id} |-> f[id]]

\* the stored objects under the folder of user_id
ObjectsOf(objs, user_id) == {o \in objs : o[1] = user_id}

\* C28: no step of a file operation of a user A (upload, list, get, download,
\* soft or hard delete, with any file id) changes a row, a stored object or
\* the storage_used of another user B.
C28_OtherUsersUntouched ==
    [][\A p \in ProcIds :
          procs'[p] # procs[p] =>
             LET a == IF procs[p].pc = "idle" THEN procs'[p].user
                      ELSE procs[p].user
             IN \A b \in UserIds \ {a} :
                   /\ users'[b] = users[b]
                   /\ RowsOf(files', b) = RowsOf(files, b)
                   /\ ObjectsOf(objects', b) = ObjectsOf(objects, b)]_vars

\* C28 witness: u1 ran a permanent delete with the id of a file of u2; it
\* has returned not found, and u2's row, object and storage_used are in place
C28_Witness ==
    \E p \in ProcIds :
        /\ procs[p].op = "delete" /\ procs[p].pc = "done"
        /\ procs[p].user = "u1" /\ procs[p].permanent
        /\ procs[p].result = "not_found"
        /\ procs[p].fid \in DOMAIN files
        /\ files[procs[p].fid].user_id = "u2"
        /\ files[procs[p].fid].storage_path \in objects
        /\ users["u2"].storage_used = 600

\* a step in which the hard delete in slot p reports failure
HardDeleteFails(p) ==
    /\ procs[p].op = "delete" /\ InFlight(p) /\ procs[p].pc # "soft"
    /\ procs'[p].pc = "done" /\ procs'[p].result # "ok"

\* C29: when a hard delete, run with no other request in progress, reports
\* failure, the row it was to remove is still in the catalog and that step
\* leaves storage_used as it was (no earlier step of the delete writes it).
C29_FailedHardDeleteChangedNothing ==
    [][\A p \in ProcIds :
          HardDeleteFails(p) =>
              /\ procs[p].fid \in DOMAIN files'
              /\ users' = users]_vars

\* the upload that generated the id f has not yet reached the end of its insert
InsertPending(f) ==
    \E q \in ProcIds :
        /\ procs[q].op = "upload" /\ procs[q].fid = f
        /\ procs[q].pc \in {"put", "insert"}

\* ids generated by an upload whose row is not, and will not be, in the catalog
Removed(f) == f \in 1 .. next_id /\ f \notin DOMAIN files /\ ~InsertPending(f)

\* C30: no step sets is_deleted of a row from true to false; an id whose row
\* is gone gets no row again; and a get_file_metadata, download_file or
\* delete_file that starts for such an id returns not found at once, unless
\* its select itself fails.
C30_LifecycleMonotonic ==
    [][/\ \A f \in DOMAIN files \cap DOMAIN files' :
             files[f].is_deleted => files'[f].is_deleted
       /\ \A f \in 1 .. next_id : Removed(f) => f \notin DOMAIN files'
       /\ \A p \in ProcIds :
             LET post == procs'[p]
             IN (/\ procs[p].pc = "idle" /\ post # procs[p]
                 /\ post.op \in {"get", "download", "delete"}
                 /\ Removed(post.fid) /\ ~post.bf)
                => post.pc = "done" /\ post.result = "not_found"]_vars

\* C30 witness: with no backend failure, the file of u1 was uploaded and
\* hard-deleted, and a later download by u1 for its id has returned not found
C30_Witness ==
    \E p \in ProcIds :
        /\ ~faults /\ procs[p].op = "download" /\ procs[p].pc = "done"
        /\ procs[p].user = "u1" /\ procs[p].result = "not_found"
        /\ Removed(procs[p].fid)
====
